---- MODULE Spec2Model ----
(***************************************************************************)
(* A model of py-minutedock (src/md.py, src/update.py, src/report.py):     *)
(* the MinuteDock session with its catalog and six indexes, the paginated  *)
(* entries_search, and the Entry mutators and update().                    *)
(*                                                                         *)
(* Python values are modelled as follows.  A JSON object / Python dict is  *)
(* a function from keys to values; an object is a record of its            *)
(* attributes; a list is a sequence.  A reference to a catalog object      *)
(* (the value of an index slot) is the position of the object in the list  *)
(* that owns it, so two objects built from equal raw records stay          *)
(* distinct.  Strings that the code takes apart (e-mail addresses,         *)
(* logged_at timestamps) are sequences of one-character strings; strings   *)
(* that the code only builds or passes on are TLA+ strings.                *)
(***************************************************************************)
EXTENDS Integers, Sequences, FiniteSets, TLC

VARIABLES
    pc,          \* where the calling script is: "users", "contacts", "projects"
                 \* (inside MinuteDock.__init__), "idle", "paging" (inside the
                 \* while loop of entries_search)
    md,          \* the MinuteDock object: its lists and its six indexes
    args,        \* the arguments of the current / last entries_search call
    search_dict, \* local of entries_search
    offset,      \* local of entries_search
    entries,     \* local of entries_search (raw records, then the returned list)
    new_entries, \* local of entries_search: the page read last
    pages,       \* history: the pages the remote returned to the current search
    log,         \* history: the requests the current / last call has sent
    last,        \* history: the last call made, its argument and its outcome
    prev,        \* history: the call made before the last one
    remote,      \* the service's copy of the entries: entry id -> raw record
    beyond,      \* TRUE once offset and entries outgrew MaxOffset (FairSpec only)
    calls        \* history: number of Entry calls made (bounded by MaxCalls)

vars == <<pc, md, args, search_dict, offset, entries, new_entries, pages, log,
          last, prev, remote, beyond, calls>>

(***************************************************************************)
(* Bounds of the model.                                                    *)
(***************************************************************************)
\* longest list a bootstrap GET returns
MaxCatalog == 2
\* longest page an entries.json GET returns
MaxPage == 2
\* most records one search accumulates while offset and entries are tracked
MaxOffset == 3
\* most Entry method calls / attribute assignments in one run
MaxCalls == 3

(***************************************************************************)
(* Python helpers.                                                         *)
(***************************************************************************)
\* JSON null / Python None where an id may stand (ids of the service are >= 1)
None == 0

\* an optional argument: omitted (Python None) or given
Omitted == [given |-> FALSE, val |-> <<>>]
Given(v) == [given |-> TRUE, val |-> v]

Last(s) == s[Len(s)]
Front(s) == SubSeq(s, 1, Len(s) - 1)

EmptyDict == <<>>

\* d[k] = v on a dict
DictSet(d, k, v) == [x \in DOMAIN d \cup {k} |-> IF x = k THEN v ELSE d[x]]

DigitChar(d) == <<"0", "1", "2", "3", "4", "5", "6", "7", "8", "9">>[d + 1]

\* str(n) for an int n >= 0
RECURSIVE str(_)
str(n) == IF n < 10 THEN DigitChar(n) ELSE str(n \div 10) \o DigitChar(n % 10)

\* sep.join(lst) for a list of strings
RECURSIVE join(_, _)
join(sep, lst) ==
    IF lst = <<>> THEN ""
    ELSE IF Len(lst) = 1 THEN lst[1]
    ELSE join(sep, Front(lst)) \o sep \o Last(lst)

\* s.split(c)[0]: the part of s before the first c, all of s without any c
RECURSIVE split0(_, _)
split0(s, c) ==
    IF s = <<>> THEN <<>>
    ELSE IF s[1] = c THEN <<>>
    ELSE <<s[1]>> \o split0(Tail(s), c)

\* s.rsplit(c, 1)[0] instead
RECURSIVE rsplit0(_, _)
rsplit0(s, c) ==
    IF s = <<>> THEN <<>>
    ELSE IF Last(s) = c THEN Front(s)
    ELSE IF c \in {s[i] : i \in DOMAIN s} THEN rsplit0(Front(s), c)
    ELSE s

\* dict(pairs): later pairs overwrite earlier ones of the same key
RECURSIVE dict(_)
dict(pairs) ==
    IF pairs = <<>> THEN EmptyDict
    ELSE DictSet(dict(Front(pairs)), Last(pairs)[1], Last(pairs)[2])

(***************************************************************************)
(* md.py:27  list2dict.  The value of a slot is the position in lst of the *)
(* object it refers to.                                                    *)
(***************************************************************************)
list2dict_short(lst, attr) ==
    dict([i \in DOMAIN Front(lst) |-> <<lst[i][attr], i>>])

list2dict(lst, attr) ==
    dict([i \in DOMAIN lst |-> <<lst[i][attr], i>>])

(***************************************************************************)
(* md.py:31-91  the catalog entities.                                      *)
(***************************************************************************)
\* md.py:47
login_of_last_at(email) == rsplit0(email, "@")
login_of(email) == split0(email, "@")

User(raw) ==
    [raw |-> raw,
     user_id |-> raw.id,
     email |-> raw.email,
     login |-> login_of(raw.email),
     first_name |-> raw.first_name,
     last_name |-> raw.last_name]

Contact(raw) ==
    [raw |-> raw,
     contact_id |-> raw.id,
     name |-> raw.name,
     short_code |-> raw.short_code,
     default_rate_dollars |-> raw.default_rate_dollars]

Project(raw) ==
    [raw |-> raw,
     project_id |-> raw.id,
     contact_id |-> raw.contact_id,
     name |-> raw.name,
     short_code |-> raw.short_code,
     description |-> raw.description,
     default_rate_dollars |-> raw.default_rate_dollars]

(***************************************************************************)
(* datetime.  A timestamp string is a sequence of characters; a datetime   *)
(* is a record of its fields with utcoffset in minutes east of UTC.        *)
(***************************************************************************)
DigitVal(c) == CHOOSE d \in 0..9 : DigitChar(d) = c

\* int() of a string of digits
RECURSIVE int(_)
int(s) == IF s = <<>> THEN 0 ELSE int(Front(s)) * 10 + DigitVal(Last(s))

\* '%0<w>d' % n as characters
RECURSIVE zfill(_, _)
zfill(n, w) == IF w = 0 THEN <<>> ELSE zfill(n \div 10, w - 1) \o <<DigitChar(n % 10)>>

\* datetime.datetime.strptime(s, '%Y-%m-%dT%H:%M:%S%z') of a well-formed s
strptime(s) ==
    [year |-> int(SubSeq(s, 1, 4)),
     month |-> int(SubSeq(s, 6, 7)),
     day |-> int(SubSeq(s, 9, 10)),
     hour |-> int(SubSeq(s, 12, 13)),
     minute |-> int(SubSeq(s, 15, 16)),
     second |-> int(SubSeq(s, 18, 19)),
     utcoffset |-> (IF s[20] = "-" THEN 0 - 1 ELSE 1)
                       * (int(SubSeq(s, 21, 22)) * 60 + int(SubSeq(s, 23, 24)))]

\* d.strftime('%Y-%m-%dT%H:%M:%S%z') of an aware datetime d
strftime_unsigned(d) ==
    LET a == IF d.utcoffset < 0 THEN 0 - d.utcoffset ELSE d.utcoffset
    IN  zfill(d.year, 4) \o <<"-">> \o zfill(d.month, 2) \o <<"-">> \o zfill(d.day, 2)
        \o <<"T">> \o zfill(d.hour, 2) \o <<":">> \o zfill(d.minute, 2)
        \o <<":">> \o zfill(d.second, 2)
        \o <<"+">> \o zfill(a \div 60, 2) \o zfill(a % 60, 2)

strftime(d) ==
    LET a == IF d.utcoffset < 0 THEN 0 - d.utcoffset ELSE d.utcoffset
    IN  zfill(d.year, 4) \o <<"-">> \o zfill(d.month, 2) \o <<"-">> \o zfill(d.day, 2)
        \o <<"T">> \o zfill(d.hour, 2) \o <<":">> \o zfill(d.minute, 2)
        \o <<":">> \o zfill(d.second, 2)
        \o <<IF d.utcoffset < 0 THEN "-" ELSE "+">>
        \o zfill(a \div 60, 2) \o zfill(a % 60, 2)

(***************************************************************************)
(* md.py:105-122  Entry.__init__                                           *)
(***************************************************************************)
Entry(raw) ==
    LET date == SubSeq(raw.logged_at, 1, Len(raw.logged_at) - 3)
                    \o SubSeq(raw.logged_at, Len(raw.logged_at) - 1, Len(raw.logged_at))
    IN  [raw |-> raw,
         entry_id |-> raw.id,
         user_id |-> raw.user_id,
         contact_id |-> raw.contact_id,
         project_id |-> raw.project_id,
         duration |-> raw.duration,
         description |-> raw.description,
         timer_active |-> raw.timer_active,
         date |-> strptime(date)]

(***************************************************************************)
(* md.py:199-222  the requests _do_get and _do_put send.                   *)
(***************************************************************************)
API_KEY == "secret"

\* _do_get adds api_key to the dict it was given (md.py:203)
get_args(a) == DictSet(a, "api_key", API_KEY)

GET(req, a) == [method |-> "GET", path |-> req, query |-> get_args(a)]

PUT(req, obj) ==
    [method |-> "PUT", path |-> req, query |-> [api_key |-> API_KEY], body |-> obj]

(***************************************************************************)
(* What the service can answer.                                            *)
(***************************************************************************)
U1 == [id |-> 1, email |-> <<"a", "@", "x">>, first_name |-> "Ann", last_name |-> "A"]
U2 == [id |-> 2, email |-> <<"b", "@", "x">>, first_name |-> "Bob", last_name |-> "B"]
U3 == [id |-> 2, email |-> <<"a", "@", "y">>, first_name |-> "Al", last_name |-> "Y"]
K1 == [id |-> 1, name |-> "Xavier", short_code |-> "X", default_rate_dollars |-> 100]
K2 == [id |-> 2, name |-> "Yvonne", short_code |-> "Y", default_rate_dollars |-> 100]
K3 == [id |-> 2, name |-> "Xenia", short_code |-> "X", default_rate_dollars |-> 90]
P1 == [id |-> 1, contact_id |-> 1, name |-> "Pilot", short_code |-> "P",
       description |-> "", default_rate_dollars |-> 100]
P2 == [id |-> 2, contact_id |-> 2, name |-> "Rollout", short_code |-> "R",
       description |-> "", default_rate_dollars |-> 100]
P3 == [id |-> 1, contact_id |-> 2, name |-> "Rework", short_code |-> "R",
       description |-> "", default_rate_dollars |-> 80]

U4 == [id |-> 3, email |-> <<"c">>, first_name |-> "Cy", last_name |-> "C"]
U5 == [id |-> 4, email |-> <<"d", "@", "x", "@", "y">>, first_name |-> "Di", last_name |-> "D"]

\* the records a bootstrap GET can return: ids and natural keys may repeat
UserRaws == {U1, U2, U3, U4, U5}
ContactRaws == {K1, K2, K3}
ProjectRaws == {P1, P2, P3}

\* the lists of at most n records of S, in any order, with repetition
ListsOf(S, n) == UNION {[1..k -> S] : k \in 0..n}

(***************************************************************************)
(* md.py:172-197  MinuteDock.__init__, one action per bootstrap GET.       *)
(***************************************************************************)
\* md.py:176-177 (projects and the indexes do not exist yet)
md0 == [users |-> EmptyDict, contacts |-> EmptyDict]

\* md.py:187-189
load_users(m, resp) ==
    LET users == [i \in DOMAIN resp |-> User(resp[i])]
    IN  DictSet(DictSet(DictSet(m, "users", users),
                        "users_by_id", list2dict(users, "user_id")),
                "users_by_login", list2dict(users, "login"))

\* md.py:191-193
load_contacts(m, resp) ==
    LET contacts == [i \in DOMAIN resp |-> Contact(resp[i])]
    IN  DictSet(DictSet(DictSet(m, "contacts", contacts),
                        "contacts_by_id", list2dict(contacts, "contact_id")),
                "contacts_by_code", list2dict(contacts, "short_code"))

\* md.py:195-197
load_projects(m, resp) ==
    LET projects == [i \in DOMAIN resp |-> Project(resp[i])]
    IN  DictSet(DictSet(DictSet(m, "projects", projects),
                        "projects_by_id", list2dict(projects, "project_id")),
                "projects_by_code", list2dict(projects, "short_code"))

NoCall == [op |-> "none"]

SearchIdle ==
    /\ args = [date_range |-> Omitted, user_logins |-> Omitted,
               contacts |-> Omitted, projects |-> Omitted]
    /\ search_dict = EmptyDict
    /\ offset = 0
    /\ entries = <<>>
    /\ new_entries = <<>>
    /\ pages = <<>>
    /\ beyond = FALSE
    /\ calls = 0

BootInit ==
    /\ pc = "users"
    /\ md = md0
    /\ log = <<>>
    /\ last = [op |-> "MinuteDock"]
    /\ prev = NoCall
    /\ remote = EmptyDict
    /\ SearchIdle

BootUsers ==
    /\ pc = "users"
    /\ \E resp \in ListsOf(UserRaws, MaxCatalog) :
           md' = load_users(md, resp)
    /\ log' = Append(log, GET("users.json", EmptyDict))
    /\ pc' = "contacts"
    /\ UNCHANGED <<args, search_dict, offset, entries, new_entries, pages, last,
                   prev, remote, beyond, calls>>

BootContacts ==
    /\ pc = "contacts"
    /\ \E resp \in ListsOf(ContactRaws, MaxCatalog) :
           md' = load_contacts(md, resp)
    /\ log' = Append(log, GET("contacts.json", EmptyDict))
    /\ pc' = "projects"
    /\ UNCHANGED <<args, search_dict, offset, entries, new_entries, pages, last,
                   prev, remote, beyond, calls>>

BootProjects ==
    /\ pc = "projects"
    /\ \E resp \in ListsOf(ProjectRaws, MaxCatalog) :
           md' = load_projects(md, resp)
    /\ log' = Append(log, GET("projects.json", EmptyDict))
    /\ pc' = "idle"
    /\ UNCHANGED <<args, search_dict, offset, entries, new_entries, pages, last,
                   prev, remote, beyond, calls>>

BootDone == pc = "idle" /\ last.op = "MinuteDock"

BootNext == BootUsers \/ BootContacts \/ BootProjects

SpecBoot == BootInit /\ [][BootNext]_vars

\* what _do_get raises: opener.open on an HTTP error status or a broken
\* connection (md.py:206), json.loads on a body that is not JSON (md.py:208)
GetErrors == {"HTTPError", "URLError", "ValueError"}

\* md.py:187-197  no try statement: an exception of _do_get leaves __init__
after_error_swallowed(stage) ==
    IF stage = "users" THEN "contacts" ELSE IF stage = "contacts" THEN "projects" ELSE "idle"

after_error(stage) == "failed"

\* a bootstrap GET fails: the constructor raises, the caller gets no session
BootFails ==
    /\ pc \in {"users", "contacts", "projects"}
    /\ \E err \in GetErrors : last' = [op |-> "MinuteDock", arg |-> pc, error |-> err]
    /\ log' = Append(log, GET(pc \o ".json", EmptyDict))
    /\ pc' = after_error(pc)
    /\ UNCHANGED <<md, args, search_dict, offset, entries, new_entries, pages,
                   prev, remote, beyond, calls>>

BootNetNext == BootUsers \/ BootContacts \/ BootProjects \/ BootFails

SpecBootNet == BootInit /\ [][BootNetNext]_vars

(***************************************************************************)
(* md.py:224-279  entries_search.                                          *)
(***************************************************************************)
\* the outcome of evaluating an expression: a value, or an exception raised
Ok(v) == [error |-> "none", value |-> v]
Raised(e) == [error |-> e, value |-> ""]

\* a string from its characters
RECURSIVE cat(_)
cat(s) == IF s = <<>> THEN "" ELSE cat(Front(s)) \o Last(s)

\* d.strftime('%m/%d/%Y') of a datetime.date d
strftime_mdY(d) ==
    cat(zfill(d.month, 2) \o <<"/">> \o zfill(d.day, 2) \o <<"/">> \o zfill(d.year, 4))

\* md.py:243-256: one of the three filter values.  lst is the catalog list,
\* idx its by-natural-key index, attr the id attribute, a the argument.
\* idx[k] of a key k that idx does not hold raises KeyError.
filter_value_lenient(lst, idx, attr, a) ==
    IF ~a.given THEN Ok("all")
    ELSE LET known == SelectSeq(a.val, LAMBDA k : k \in DOMAIN idx)
         IN  Ok(join(",", [i \in DOMAIN known |-> str(lst[idx[known[i]]][attr])]))

filter_value_reversed(lst, idx, attr, a) ==
    IF ~a.given THEN Ok("all")
    ELSE IF \E i \in DOMAIN a.val : a.val[i] \notin DOMAIN idx THEN Raised("KeyError")
    ELSE Ok(join(",", [i \in DOMAIN a.val |->
                          str(lst[idx[a.val[Len(a.val) + 1 - i]]][attr])]))

filter_value(lst, idx, attr, a) ==
    IF ~a.given THEN Ok("all")
    ELSE IF \E i \in DOMAIN a.val : a.val[i] \notin DOMAIN idx THEN Raised("KeyError")
    ELSE Ok(join(",", [i \in DOMAIN a.val |-> str(lst[idx[a.val[i]]][attr])]))

\* md.py:243-246
users_value(m, a) == filter_value(m.users, m.users_by_login, "user_id", a)
\* md.py:248-251
contacts_value(m, a) == filter_value(m.contacts, m.contacts_by_code, "contact_id", a)
\* md.py:253-256
projects_value(m, a) == filter_value(m.projects, m.projects_by_code, "project_id", a)

\* md.py:258-262
with_date_range(d, a) ==
    IF ~a.given THEN d
    ELSE DictSet(DictSet(d, "from", strftime_mdY(a.val[1])), "to", strftime_mdY(a.val[2]))

\* md.py:241-262: search_dict as it is when the loop is entered
build_search_dict(m, a) ==
    with_date_range(
        DictSet(DictSet(DictSet(EmptyDict,
            "users", users_value(m, a.user_logins).value),
            "contacts", contacts_value(m, a.contacts).value),
            "projects", projects_value(m, a.projects).value),
        a.date_range)

\* md.py:243-256: the first exception raised while the filters are encoded
encode_error(m, a) ==
    IF users_value(m, a.user_logins).error # "none"
        THEN users_value(m, a.user_logins).error
    ELSE IF contacts_value(m, a.contacts).error # "none"
        THEN contacts_value(m, a.contacts).error
    ELSE projects_value(m, a.projects).error

\* md.py:270
extend_prepend(lst, page) == page \o lst
extend(lst, page) == lst \o page

\* md.py:271
advance_by_one(off, page) == off + 1
advance(off, page) == off + Len(page)

\* md.py:267
loop_ends(page) == Len(page) = 0

\* md.py:275-277
post_filter_off(a, lst) == lst
post_filter(a, lst) ==
    IF a.projects.given /\ Len(a.projects.val) = 0
        THEN SelectSeq(lst, LAMBDA e : e.project_id = None)
        ELSE lst

\* md.py:273-279
search_result(a, raws) == post_filter(a, [i \in DOMAIN raws |-> Entry(raws[i])])

Range(f) == {f[x] : x \in DOMAIN f}

L_a == <<"a">>
L_b == <<"b">>
L_zz == <<"z", "z">>

LoginArgs == {Omitted, Given(<<>>), Given(<<L_b, L_a>>), Given(<<L_zz>>)}
ContactArgs == {Omitted, Given(<<>>), Given(<<"X">>), Given(<<"X", "Q">>)}
ProjectArgs == {Omitted, Given(<<>>), Given(<<"R", "P">>), Given(<<"Q">>)}
DateArgs == {Omitted, Given(<<[year |-> 2012, month |-> 7, day |-> 1],
                              [year |-> 2012, month |-> 8, day |-> 30]>>)}

\* entries_search is called with the arguments a; the filters are encoded
\* (md.py:239-262)
search_call(a) ==
    /\ pc = "idle"
    /\ args' = a
    /\ IF encode_error(md, a) # "none"
          THEN /\ pc' = "idle"
               /\ last' = [op |-> "entries_search", error |-> encode_error(md, a)]
               /\ search_dict' = EmptyDict
          ELSE /\ pc' = "paging"
               /\ last' = [op |-> "entries_search", error |-> "none"]
               /\ search_dict' = build_search_dict(md, a)
    /\ offset' = 0
    /\ entries' = <<>>
    /\ new_entries' = <<>>
    /\ pages' = <<>>
    /\ log' = <<>>
    /\ beyond' = FALSE
    /\ UNCHANGED <<md, remote>>

SearchStart ==
    /\ \E dr \in DateArgs, ul \in LoginArgs, cs \in ContactArgs, ps \in ProjectArgs :
         search_call([date_range |-> dr, user_logins |-> ul, contacts |-> cs, projects |-> ps])
    /\ UNCHANGED <<prev, calls>>

\* md.py:266
entries_path_users == "users.json"

entries_path == "entries.json"

\* one turn of the loop (md.py:264-271) and, when it breaks, the return (md.py:273-279)
GetPage ==
    /\ pc = "paging"
    /\ \E page \in ListsOf(Range(remote), MaxPage) :
         /\ loop_ends(page) \/ (~beyond /\ advance(offset, page) <= MaxOffset)
         /\ new_entries' = page
         /\ pages' = Append(pages, page)
         /\ IF loop_ends(page)
               THEN /\ entries' = search_result(args, entries)
                    /\ offset' = offset
                    /\ pc' = "idle"
               ELSE /\ entries' = extend(entries, page)
                    /\ offset' = advance(offset, page)
                    /\ pc' = "paging"
    /\ search_dict' = get_args(DictSet(search_dict, "offset", str(offset)))
    /\ log' = Append(log, GET(entries_path, DictSet(search_dict, "offset", str(offset))))
    /\ UNCHANGED <<md, args, last, prev, remote, beyond, calls>>

\* md.py:205-210  _do_get has no try statement: what opener.open or
\* json.loads raises leaves _do_get, and entries_search (md.py:266) with it
on_get_error_as_last_page(err) == Ok(<<>>)

on_get_error(err) == Raised(err)

\* the GET of a turn of the loop fails
GetPageFails ==
    /\ pc = "paging"
    /\ \E err \in GetErrors :
         IF on_get_error(err).error # "none"
            THEN /\ last' = [op |-> "entries_search", error |-> on_get_error(err).error]
                 /\ entries' = <<>>
            ELSE /\ last' = last
                 /\ entries' = search_result(args, entries)
    /\ pc' = "idle"
    /\ search_dict' = get_args(DictSet(search_dict, "offset", str(offset)))
    /\ log' = Append(log, GET(entries_path, DictSet(search_dict, "offset", str(offset))))
    /\ UNCHANGED <<md, args, offset, new_entries, pages, prev, remote, beyond, calls>>

(***************************************************************************)
(* The session the search and the Entry calls start from: the state after  *)
(* MinuteDock.__init__ (md.py:172-197) has read the three lists.           *)
(***************************************************************************)
\* the bootstrap answers of two services: one with unique keys, one where a
\* login and two short codes occur twice
Bootstraps ==
    { [users |-> <<U1, U2>>, contacts |-> <<K1, K2>>, projects |-> <<P1, P2>>],
      [users |-> <<U1, U3>>, contacts |-> <<K1, K3>>, projects |-> <<P2, P3>>] }

Session(b) == load_projects(load_contacts(load_users(md0, b.users), b.contacts), b.projects)

TS(off) == <<"2", "0", "1", "2", "-", "0", "7", "-", "0", "1", "T",
             "1", "0", ":", "3", "0", ":", "0", "5">> \o off

E11 == [id |-> 11, user_id |-> 1, contact_id |-> 1, project_id |-> None,
        duration |-> 3600, description |-> "d0", timer_active |-> FALSE,
        logged_at |-> TS(<<"+", "1", "2", ":", "0", "0">>)]
E12 == [id |-> 12, user_id |-> 2, contact_id |-> 1, project_id |-> 1,
        duration |-> 1800, description |-> "d0", timer_active |-> TRUE,
        logged_at |-> TS(<<"-", "0", "5", ":", "3", "0">>), invoiced |-> TRUE]

E13 == [id |-> 13, user_id |-> 1, contact_id |-> 2, project_id |-> 2,
        duration |-> 60, description |-> "d0", timer_active |-> FALSE,
        logged_at |-> TS(<<"-", "0", "0", ":", "3", "0">>)]

RemoteEntries == dict(<< <<11, E11>>, <<12, E12>> >>)

Init ==
    /\ pc = "idle"
    /\ \E b \in Bootstraps : md = Session(b)
    /\ log = <<GET("users.json", EmptyDict), GET("contacts.json", EmptyDict),
               GET("projects.json", EmptyDict)>>
    /\ last = [op |-> "MinuteDock"]
    /\ prev = NoCall
    /\ remote = RemoteEntries
    /\ SearchIdle

Next == SearchStart \/ GetPage

Spec == Init /\ [][Next]_vars

(***************************************************************************)
(* The search against a service that never stops answering.  Python's     *)
(* offset and entries grow without bound; once they pass MaxOffset the     *)
(* model stops tracking them (beyond) and keeps only the page read last.   *)
(* Every request is answered (blocking I/O), hence the weak fairness.      *)
(***************************************************************************)
GetPageBeyond ==
    /\ pc = "paging"
    /\ \E page \in ListsOf(Range(remote), MaxPage) :
         /\ ~loop_ends(page)
         /\ beyond \/ advance(offset, page) > MaxOffset
         /\ new_entries' = page
    /\ beyond' = TRUE
    /\ search_dict' = get_args(DictSet(search_dict, "offset", str(offset)))
    /\ UNCHANGED <<pc, md, args, offset, entries, pages, log, last, prev, remote, calls>>

(***************************************************************************)
(* md.py:132-153  the Entry methods, called on an Entry the last search    *)
(* returned; and the attribute assignments the class documents             *)
(* (md.py:97-99).                                                          *)
(***************************************************************************)
\* md.py:135
change_contact_unchecked(m, e, code) ==
    IF code \notin DOMAIN m.contacts_by_code THEN Ok(e)
    ELSE Ok([e EXCEPT !.contact_id = m.contacts[m.contacts_by_code[code]].contact_id])

change_contact(m, e, code) ==
    IF code \notin DOMAIN m.contacts_by_code THEN Raised("KeyError")
    ELSE Ok([e EXCEPT !.contact_id = m.contacts[m.contacts_by_code[code]].contact_id])

\* md.py:140
change_project_slot(m, e, code) ==
    IF code \notin DOMAIN m.projects_by_code THEN Raised("KeyError")
    ELSE Ok([e EXCEPT !.project_id = m.projects_by_code[code]])

change_project(m, e, code) ==
    IF code \notin DOMAIN m.projects_by_code THEN Raised("KeyError")
    ELSE Ok([e EXCEPT !.project_id = m.projects[m.projects_by_code[code]].project_id])

\* md.py:144-150
new_raw_with_timer(e) ==
    DictSet(DictSet(DictSet(DictSet(DictSet(DictSet(e.raw,
        "user_id", e.user_id),
        "contact_id", e.contact_id),
        "project_id", e.project_id),
        "description", e.description),
        "logged_at", strftime(e.date)),
        "timer_active", e.timer_active)

new_raw_changed_only(e) ==
    [k \in {k \in DOMAIN e.raw : k = "id"
                \/ (k = "user_id" /\ e.user_id # e.raw[k])
                \/ (k = "contact_id" /\ e.contact_id # e.raw[k])
                \/ (k = "project_id" /\ e.project_id # e.raw[k])
                \/ (k = "description" /\ e.description # e.raw[k])
                \/ (k = "logged_at" /\ e.date # Entry(e.raw).date)} |->
        IF k = "user_id" THEN e.user_id
        ELSE IF k = "contact_id" THEN e.contact_id
        ELSE IF k = "project_id" THEN e.project_id
        ELSE IF k = "description" THEN e.description
        ELSE IF k = "logged_at" THEN strftime(e.date)
        ELSE e.raw[k]]

new_raw(e) ==
    DictSet(DictSet(DictSet(DictSet(DictSet(e.raw,
        "user_id", e.user_id),
        "contact_id", e.contact_id),
        "project_id", e.project_id),
        "description", e.description),
        "logged_at", strftime(e.date))

\* md.py:144  update() writes to a copy of raw: the Entry is as it was
self_after_update_aliased(e) == [e EXCEPT !.raw = new_raw(e)]

self_after_update(e) == e

\* md.py:153
update_request(e) ==
    PUT("entries/" \o str(e.entry_id) \o ".json", [entry |-> new_raw(e)])

\* the service writes timestamps as it sent them, with a colon in the offset
service_time(ts) ==
    IF Len(ts) = 24 THEN SubSeq(ts, 1, 22) \o <<":">> \o SubSeq(ts, 23, 24) ELSE ts

\* the service sets the attributes a PUT to entries/<id>.json carries
apply_put(r, id, req) ==
    DictSet(r, id, [k \in DOMAIN r[id] \cup DOMAIN req.body.entry |->
                       IF k \notin DOMAIN req.body.entry THEN r[id][k]
                       ELSE IF k = "logged_at" THEN service_time(req.body.entry[k])
                       ELSE req.body.entry[k]])

ContactCodes == {"X", "Y"}
ProjectCodes == {"P", "R"}

\* what a caller assigns to an attribute of an Entry (md.py:97-99, report.py, update.py)
Assignments ==
    { <<"description", "d1">>, <<"timer_active", TRUE>>, <<"timer_active", FALSE>>,
      <<"duration", 60>> }

\* md.py:273  every record of a page gets an Entry object of its own: a
\* write to the object at position i writes to no other
write_object_by_id(lst, i, e) ==
    [j \in DOMAIN lst |-> IF lst[j].entry_id = lst[i].entry_id THEN e ELSE lst[j]]

write_object(lst, i, e) == [lst EXCEPT ![i] = e]

EntryCall(i) ==
    /\ pc = "idle"
    /\ last.op # "MinuteDock"
    /\ i \in DOMAIN entries
    /\ calls < MaxCalls
    /\ calls' = calls + 1
    /\ prev' = last

ChangeContact ==
    \E i \in DOMAIN entries, code \in ContactCodes :
        /\ EntryCall(i)
        /\ last' = [op |-> "change_contact", entry |-> i, arg |-> code,
                    error |-> change_contact(md, entries[i], code).error]
        /\ entries' = IF change_contact(md, entries[i], code).error = "none"
                         THEN write_object(entries, i, change_contact(md, entries[i], code).value)
                         ELSE entries
        /\ log' = <<>>
        /\ UNCHANGED <<pc, md, args, search_dict, offset, new_entries, pages, remote, beyond>>

ChangeProject ==
    \E i \in DOMAIN entries, code \in ProjectCodes :
        /\ EntryCall(i)
        /\ last' = [op |-> "change_project", entry |-> i, arg |-> code,
                    error |-> change_project(md, entries[i], code).error]
        /\ entries' = IF change_project(md, entries[i], code).error = "none"
                         THEN write_object(entries, i, change_project(md, entries[i], code).value)
                         ELSE entries
        /\ log' = <<>>
        /\ UNCHANGED <<pc, md, args, search_dict, offset, new_entries, pages, remote, beyond>>

Assign ==
    \E i \in DOMAIN entries, av \in Assignments :
        /\ EntryCall(i)
        /\ entries[i][av[1]] # av[2]
        /\ last' = [op |-> "assign", entry |-> i, arg |-> av[1], error |-> "none"]
        /\ entries' = write_object(entries, i, [entries[i] EXCEPT ![av[1]] = av[2]])
        /\ log' = <<>>
        /\ UNCHANGED <<pc, md, args, search_dict, offset, new_entries, pages, remote, beyond>>

Update ==
    \E i \in DOMAIN entries :
        /\ EntryCall(i)
        /\ last' = [op |-> "update", entry |-> i, arg |-> "", error |-> "none"]
        /\ log' = <<update_request(entries[i])>>
        /\ remote' = apply_put(remote, entries[i].entry_id, update_request(entries[i]))
        /\ entries' = write_object(entries, i, self_after_update(entries[i]))
        /\ UNCHANGED <<pc, md, args, search_dict, offset, new_entries, pages, beyond>>

\* what opener.open raises in _do_put (md.py:219): the service refused the
\* request, or the connection broke before or after the service stored it
PutErrors == {"HTTPError", "URLError"}

\* md.py:153, 219  the PUT of update() fails: the exception leaves update()
UpdateFails ==
    \E i \in DOMAIN entries, err \in PutErrors :
        /\ EntryCall(i)
        /\ last' = [op |-> "update", entry |-> i, arg |-> "", error |-> err]
        /\ log' = <<update_request(entries[i])>>
        /\ \/ remote' = remote
           \/ /\ err = "URLError"
              /\ remote' = apply_put(remote, entries[i].entry_id, update_request(entries[i]))
        /\ entries' = write_object(entries, i, self_after_update(entries[i]))
        /\ UNCHANGED <<pc, md, args, search_dict, offset, new_entries, pages, beyond>>

\* what entries_search(a) leaves behind when it read the records raws in one
\* page and then an empty one (md.py:239-271)
LastSearch(a, raws) ==
    /\ args = a
    /\ pages = <<raws, <<>>>>
    /\ new_entries = <<>>
    /\ offset = advance(0, raws)
    /\ search_dict = get_args(DictSet(get_args(DictSet(build_search_dict(md, a),
                         "offset", str(0))), "offset", str(advance(0, raws))))
    /\ log = <<GET(entries_path, DictSet(build_search_dict(md, a), "offset", str(0))),
               GET(entries_path, DictSet(get_args(DictSet(build_search_dict(md, a),
                       "offset", str(0))), "offset", str(advance(0, raws))))>>
    /\ last = [op |-> "entries_search", error |-> "none"]

\* the state in which entries_search() with no argument has returned the
\* records raws in one page (md.py:239-279)
Returned(a, raws) ==
    /\ entries = search_result(a, extend(<<>>, raws))
    /\ LastSearch(a, raws)

Fetched == {<<E12>>, <<E13>>, <<E11, E12>>, <<E11, E11>>}

EntryRemote == DictSet(RemoteEntries, 13, E13)

EntryInit ==
    /\ pc = "idle"
    /\ \E b \in Bootstraps : md = Session(b)
    /\ remote = EntryRemote
    /\ \E raws \in Fetched :
           Returned([date_range |-> Omitted, user_logins |-> Omitted,
                     contacts |-> Omitted, projects |-> Omitted], raws)
    /\ prev = [op |-> "MinuteDock"]
    /\ beyond = FALSE
    /\ calls = 0

EntryNext == ChangeContact \/ ChangeProject \/ Assign \/ Update

SpecEntry == EntryInit /\ [][EntryNext]_vars

\* the state of a caller that searched twice and kept the entries of both
\* searches, entries = md.entries_search() + md.entries_search(): the first
\* search returned the records first, the second the records raws
ReturnedTwice(a, first, raws) ==
    /\ entries = search_result(a, extend(<<>>, first)) \o search_result(a, extend(<<>>, raws))
    /\ LastSearch(a, raws)

TwoInit ==
    /\ pc = "idle"
    /\ \E b \in Bootstraps : md = Session(b)
    /\ remote = EntryRemote
    /\ \E raws \in {<<E11>>, <<E12, E11>>} :
           ReturnedTwice([date_range |-> Omitted, user_logins |-> Omitted,
                          contacts |-> Omitted, projects |-> Omitted], <<E11>>, raws)
    /\ prev = [op |-> "entries_search", error |-> "none"]
    /\ beyond = FALSE
    /\ calls = 0

EntryNetNext == ChangeContact \/ ChangeProject \/ Assign \/ Update \/ UpdateFails

SpecEntryNet == EntryInit /\ [][EntryNetNext]_vars

SpecTwo == TwoInit /\ [][EntryNetNext]_vars

(***************************************************************************)
(* A caller that searches and works on the entries in any order, as        *)
(* update.py:9-18 does in one: every call counts, and any request can fail.*)
(***************************************************************************)
\* the searches of the caller: all entries, the entries without a project
\* (update.py:13), the entries of an unknown login
SessionArgs ==
    { [date_range |-> Omitted, user_logins |-> Omitted, contacts |-> Omitted,
       projects |-> Omitted],
      [date_range |-> Omitted, user_logins |-> Omitted, contacts |-> Omitted,
       projects |-> Given(<<>>)],
      [date_range |-> Omitted, user_logins |-> Given(<<L_zz>>), contacts |-> Omitted,
       projects |-> Omitted] }

SessionSearch ==
    /\ calls < MaxCalls
    /\ \E a \in SessionArgs : search_call(a)
    /\ calls' = calls + 1
    /\ prev' = last

\* the service holds one entry
SessionRemote == dict(<< <<11, E11>> >>)

SessionInit ==
    /\ pc = "idle"
    /\ md = Session([users |-> <<U1, U2>>, contacts |-> <<K1, K2>>, projects |-> <<P1, P2>>])
    /\ log = <<GET("users.json", EmptyDict), GET("contacts.json", EmptyDict),
               GET("projects.json", EmptyDict)>>
    /\ last = [op |-> "MinuteDock"]
    /\ prev = NoCall
    /\ remote = SessionRemote
    /\ SearchIdle

SessionNext ==
    \/ SessionSearch \/ GetPage \/ GetPageFails
    \/ ChangeContact \/ ChangeProject \/ Assign \/ Update \/ UpdateFails

SpecSession == SessionInit /\ [][SessionNext]_vars

(***************************************************************************)
(* md.py:264-271 against a service that pages by the offset it is sent:    *)
(* its entries have a fixed order, and it answers a GET with some of them, *)
(* from the one at the offset on, or with none when the offset is past the *)
(* last.                                                                   *)
(***************************************************************************)
\* the entries of the service r in its order, the order of their ids
Dataset(r) ==
    [i \in 1..Cardinality(DOMAIN r) |->
        r[CHOOSE id \in DOMAIN r : Cardinality({x \in DOMAIN r : x < id}) = i - 1]]

\* the offset a request carries, read back from its digits
offset_of(req) == CHOOSE n \in 0..(MaxOffset + MaxPage) : str(n) = req.query.offset

SlicesAt(data, k) ==
    IF k >= Len(data) THEN {<<>>}
    ELSE {SubSeq(data, k + 1, k + n) : n \in 1..(Len(data) - k)}

GetSlice ==
    /\ GetPage
    /\ new_entries' \in SlicesAt(Dataset(remote), offset_of(Last(log')))

SliceInit ==
    /\ pc = "idle"
    /\ \E b \in Bootstraps : md = Session(b)
    /\ log = <<GET("users.json", EmptyDict), GET("contacts.json", EmptyDict),
               GET("projects.json", EmptyDict)>>
    /\ last = [op |-> "MinuteDock"]
    /\ prev = NoCall
    /\ remote \in {EmptyDict, SessionRemote, RemoteEntries, EntryRemote}
    /\ SearchIdle

SliceNext == SearchStart \/ GetSlice

\* the loop takes its next turn as long as the process runs
SpecSlices == SliceInit /\ [][SliceNext]_vars /\ WF_vars(GetSlice)

FairNext == SearchStart \/ GetPage \/ GetPageBeyond

FairSpec == Init /\ [][FairNext]_vars /\ WF_vars(FairNext)

(***************************************************************************)
(* Claims about entries_search.                                            *)
(***************************************************************************)
RECURSIVE Flatten(_)
Flatten(ps) == IF ps = <<>> THEN <<>> ELSE Flatten(Front(ps)) \o Last(ps)

RECURSIVE TotalSize(_)
TotalSize(ps) == IF ps = <<>> THEN 0 ELSE TotalSize(Front(ps)) + Len(Last(ps))

Searching == last.op = "entries_search" /\ last.error = "none"
SearchReturned == Searching /\ pc = "idle"
EmptyProjects == args.projects = Given(<<>>)

\* C1: every entries_search call ends: whatever pages the remote returns, a
\* search that has entered its loop eventually leaves it.
C1_SearchTerminates == (pc = "paging") ~> (pc = "idle")

\* C2: a search with projects = [] returns only entries whose project_id is
\* None, and returns every fetched entry whose project_id is None, in order.
C2_EmptyProjectsOnlyUnset ==
    (SearchReturned /\ EmptyProjects) =>
        /\ \A i \in DOMAIN entries : entries[i].project_id = None
        /\ [i \in DOMAIN entries |-> entries[i].raw]
               = SelectSeq(Flatten(pages), LAMBDA r : r.project_id = None)

C2_Witness ==
    /\ SearchReturned /\ EmptyProjects
    /\ Len(entries) = 2
    /\ \E i \in DOMAIN pages : \E j \in DOMAIN pages[i] : pages[i][j].project_id # None

\* C3: a search with projects = [] asks the remote for "all" projects in
\* every GET it sends.
C3_EmptyProjectsRequestsAll ==
    (last.op = "entries_search" /\ EmptyProjects) =>
        \A i \in DOMAIN log : log[i].query.projects = "all"

\* C4: the GETs of one search go to entries.json one after another, each
\* answered before the next is sent; the first carries offset 0, each later
\* one the number of records all earlier pages held; only the last page can
\* be empty, and after an empty page the loop has ended.
C4_OffsetsFollowPages ==
    Searching =>
        /\ Len(log) = Len(pages)
        /\ \A i \in DOMAIN log :
              /\ log[i].method = "GET"
              /\ log[i].path = "entries.json"
              /\ log[i].query.offset = str(TotalSize(SubSeq(pages, 1, i - 1)))
              /\ i < Len(pages) => pages[i] # <<>>
              /\ pages[i] = <<>> => pc = "idle"
        /\ pc = "idle" => pages # <<>> /\ Last(pages) = <<>>

C4_Witness ==
    /\ SearchReturned
    /\ Len(pages) = 3 /\ Len(pages[1]) = 2 /\ Len(pages[2]) = 1
    /\ log[3].query.offset = "3"

\* C5: without the empty-projects post-filter the result is the records of
\* the pages before the empty page, concatenated in page order, each wrapped
\* in an Entry; its length is the sum of the page sizes.
C5_ResultIsConcatenation ==
    (SearchReturned /\ ~EmptyProjects) =>
        /\ entries = [i \in DOMAIN Flatten(pages) |-> Entry(Flatten(pages)[i])]
        /\ Len(entries) = TotalSize(pages)

C5_Witness ==
    /\ SearchReturned /\ ~EmptyProjects
    /\ Len(pages) = 3
    /\ [i \in DOMAIN entries |-> entries[i].entry_id] = <<12, 11, 12>>

\* C6: a search given a login or short code that its by-natural-key index
\* does not hold fails with KeyError and sends no request.
Absent(a, idx) == a.given /\ \E i \in DOMAIN a.val : a.val[i] \notin DOMAIN idx

C6_UnknownKeyFailsFast ==
    (/\ last.op = "entries_search"
     /\ \/ Absent(args.user_logins, md.users_by_login)
        \/ Absent(args.contacts, md.contacts_by_code)
        \/ Absent(args.projects, md.projects_by_code))
    => (last.error = "KeyError" /\ log = <<>> /\ pc = "idle")

C6_Witness ==
    /\ last.op = "entries_search" /\ last.error = "KeyError"
    /\ ~Absent(args.user_logins, md.users_by_login) /\ args.user_logins.given
    /\ ~Absent(args.contacts, md.contacts_by_code)
    /\ Absent(args.projects, md.projects_by_code)
    /\ log = <<>>

(***************************************************************************)
(* Claims about the Entry methods.  The record an Entry was built from is  *)
(* the record the search fetched at its position.                          *)
(***************************************************************************)
Original(i) == Flatten(pages)[i]

Writable == {"user_id", "contact_id", "project_id", "description", "logged_at"}

Updated == last.op = "update" /\ log # <<>>
Payload == log[1].body.entry

\* C7: the payload update() sends has exactly the keys of the record the
\* Entry was built from, and every key but the five writable ones carries
\* that record's value, timer_active included, whatever was assigned to the
\* Entry's attributes before.
C7_PayloadKeepsOtherKeys ==
    Updated =>
        /\ DOMAIN Payload = DOMAIN Original(last.entry)
        /\ \A k \in DOMAIN Payload \ Writable : Payload[k] = Original(last.entry)[k]
        /\ Payload.timer_active = Original(last.entry).timer_active

C7_Witness ==
    /\ Updated
    /\ entries[last.entry].timer_active # Original(last.entry).timer_active
    /\ entries[last.entry].duration # Original(last.entry).duration
    /\ "invoiced" \in DOMAIN Payload

\* C8: update() called right after change_project(X) with a known code X
\* sends one request, a PUT to entries/<entry_id>.json with the body
\* {"entry": payload}, where payload.project_id is the project_id of the
\* project the by-code index holds under X; likewise change_contact(C)
\* and payload.contact_id.
C8_UpdateSendsResolvedId ==
    (/\ Updated
     /\ prev.op \in {"change_project", "change_contact"}
     /\ prev.error = "none"
     /\ prev.entry = last.entry)
    => /\ Len(log) = 1
       /\ log[1].method = "PUT"
       /\ log[1].path = "entries/" \o str(Original(last.entry).id) \o ".json"
       /\ DOMAIN log[1].body = {"entry"}
       /\ prev.op = "change_project" =>
             Payload.project_id = md.projects[md.projects_by_code[prev.arg]].project_id
       /\ prev.op = "change_contact" =>
             Payload.contact_id = md.contacts[md.contacts_by_code[prev.arg]].contact_id

C8_Witness ==
    /\ Updated
    /\ prev.op = "change_project" /\ prev.error = "none" /\ prev.entry = last.entry
    /\ Payload.project_id # Original(last.entry).project_id
    /\ md.projects_by_code[prev.arg] # Payload.project_id

\* C9: a change_contact or change_project call sends no request and leaves
\* the catalog, the remote entries and every other Entry alone; with a code
\* its index holds it changes contact_id (project_id) of the Entry to the id
\* indexed under the code and nothing else of it; with any other code it
\* fails with KeyError and changes nothing.
ChangeStep(op, attr, lst, idx) ==
    (calls' = calls + 1 /\ last'.op = op) =>
        /\ log' = <<>>
        /\ remote' = remote
        /\ md' = md
        /\ IF last'.arg \in DOMAIN idx
              THEN /\ last'.error = "none"
                   /\ entries' = [entries EXCEPT ![last'.entry] =
                                     [@ EXCEPT ![attr] = lst[idx[last'.arg]][attr]]]
              ELSE /\ last'.error = "KeyError"
                   /\ entries' = entries

C9_ChangeIsLocal ==
    [][/\ ChangeStep("change_contact", "contact_id", md.contacts, md.contacts_by_code)
       /\ ChangeStep("change_project", "project_id", md.projects, md.projects_by_code)]_vars

C9_Witness ==
    /\ last.op = "change_contact" /\ last.error = "none"
    /\ prev.op = "change_project" /\ prev.error = "KeyError"
    /\ entries[last.entry].contact_id # Original(last.entry).contact_id
    /\ remote[entries[last.entry].entry_id] = Original(last.entry)

(***************************************************************************)
(* Claims about the catalog.                                               *)
(***************************************************************************)
\* the slots of index d that refer to the object at position i of its list
SlotsOf(d, i) == {k \in DOMAIN d : d[k] = i}

InExactlyOneSlot(lst, d) == \A i \in DOMAIN lst : Cardinality(SlotsOf(d, i)) = 1

SlotsHoldTheirKey(lst, d, attr) ==
    \A k \in DOMAIN d : d[k] \in DOMAIN lst /\ lst[d[k]][attr] = k

DistinctKeys(lst, attr) ==
    \A i, j \in DOMAIN lst : lst[i][attr] = lst[j][attr] => i = j

DaysFromCivil(y, m, d) ==
    LET yy == IF m <= 2 THEN y - 1 ELSE y
        era == yy \div 400
        yoe == yy - era * 400
        doy == (153 * (IF m > 2 THEN m - 3 ELSE m + 9) + 2) \div 5 + d - 1
        doe == yoe * 365 + yoe \div 4 - yoe \div 100 + doy
    IN  era * 146097 + doe - 719468

\* what a timestamp YYYY-MM-DDTHH:MM:SS followed by +HH:MM or +HHMM denotes:
\* its UTC offset in minutes and its instant in seconds since the epoch
WireOffset(s) ==
    (IF s[20] = "-" THEN 0 - 1 ELSE 1)
        * (int(SubSeq(s, 21, 22)) * 60 + int(SubSeq(s, Len(s) - 1, Len(s))))

WireInstant(s) ==
    ((DaysFromCivil(int(SubSeq(s, 1, 4)), int(SubSeq(s, 6, 7)), int(SubSeq(s, 9, 10))) * 24
        + int(SubSeq(s, 12, 13))) * 60 + int(SubSeq(s, 15, 16)) - WireOffset(s)) * 60
        + int(SubSeq(s, 18, 19))

\* C11: update() called on an Entry right after the search built it sends
\* the record the Entry was built from in every key but logged_at, and a
\* logged_at of the form YYYY-MM-DDTHH:MM:SS+HHMM (no colon in the offset)
\* that denotes the same instant and the same UTC offset.
C11_RoundTrip ==
    (Updated /\ prev.op = "entries_search") =>
        /\ DOMAIN Payload = DOMAIN Original(last.entry)
        /\ \A k \in DOMAIN Payload \ {"logged_at"} : Payload[k] = Original(last.entry)[k]
        /\ Len(Payload.logged_at) = 24
        /\ Payload.logged_at[20] \in {"+", "-"}
        /\ \A i \in 21..24 : Payload.logged_at[i] \in {DigitChar(d) : d \in 0..9}
        /\ WireOffset(Payload.logged_at) = WireOffset(Original(last.entry).logged_at)
        /\ WireInstant(Payload.logged_at) = WireInstant(Original(last.entry).logged_at)

C11_Witness ==
    /\ Updated /\ prev.op = "entries_search"
    /\ Original(last.entry).logged_at = TS(<<"-", "0", "0", ":", "3", "0">>)
    /\ Payload.logged_at = TS(<<"-", "0", "0", "3", "0">>)
    /\ WireOffset(Payload.logged_at) = 0 - 30

(***************************************************************************)
(* Claims about the filter encoding.                                       *)
(***************************************************************************)
\* the ids the keys of an argument resolve to, in the order given
ResolvedIds(lst, idx, attr, a) == [i \in DOMAIN a.val |-> lst[idx[a.val[i]]][attr]]

FilterIs(v, lst, idx, attr, a) ==
    /\ (v = "all") <=> ~a.given
    /\ a.given => v = join(",", [i \in DOMAIN a.val |->
                                  str(ResolvedIds(lst, idx, attr, a)[i])])

\* C12: in every GET of a search, each of users, contacts and projects is
\* "all" exactly when its own argument was omitted and otherwise the ids of
\* the given keys, comma-joined in the order given; from and to are sent
\* exactly when a date range was given.
C12_FiltersIndependent ==
    Searching =>
        \A i \in DOMAIN log :
            /\ FilterIs(log[i].query.users, md.users, md.users_by_login,
                        "user_id", args.user_logins)
            /\ FilterIs(log[i].query.contacts, md.contacts, md.contacts_by_code,
                        "contact_id", args.contacts)
            /\ FilterIs(log[i].query.projects, md.projects, md.projects_by_code,
                        "project_id", args.projects)
            /\ ("from" \in DOMAIN log[i].query) <=> args.date_range.given
            /\ ("to" \in DOMAIN log[i].query) <=> args.date_range.given

C12_Witness ==
    /\ Searching /\ Len(log) = 2
    /\ log[2].query.users = "2,1"
    /\ log[2].query.contacts = "all"
    /\ log[2].query.projects = "2,1"
    /\ args.date_range.given
    /\ log[2].query.from = "07/01/2012" /\ log[2].query.to = "08/30/2012"

(***************************************************************************)
(* Claims about the users.                                                 *)
(***************************************************************************)
\* p is the part of s before its first "@", or s when s holds none
IsLocalPart(p, s) ==
    /\ Len(p) <= Len(s)
    /\ p = SubSeq(s, 1, Len(p))
    /\ \A i \in DOMAIN p : p[i] # "@"
    /\ Len(p) = Len(s) \/ s[Len(p) + 1] = "@"

\* C13: the login of every User is the part of its e-mail address before
\* the first "@", the whole address when it holds no "@".
C13_LoginIsLocalPart ==
    pc # "users" =>
        \A i \in DOMAIN md.users :
            IsLocalPart(md.users[i].login, md.users[i].raw.email)

C13_Witness ==
    /\ pc # "users" /\ Len(md.users) = 2
    /\ md.users[1].raw.email = <<"c">> /\ md.users[1].login = <<"c">>
    /\ md.users[2].raw.email = <<"d", "@", "x", "@", "y">> /\ md.users[2].login = <<"d">>

(***************************************************************************)
(* Claims about update().                                                  *)
(***************************************************************************)
UpdateStep == last'.op = "update" /\ calls' = calls + 1

\* C14: a call of update(), whether its PUT succeeds or fails, sends exactly
\* one request, a PUT to entries/<entry_id>.json, and leaves the Entry (raw
\* included), the other entries and the session as they were; called twice
\* in a row on the same Entry it sends the same body twice.
C14_UpdateIsStateless ==
    [][UpdateStep =>
          /\ Len(log') = 1
          /\ log'[1].method = "PUT"
          /\ log'[1].path = "entries/" \o str(entries[last'.entry].entry_id) \o ".json"
          /\ entries' = entries
          /\ UNCHANGED <<pc, md, args, search_dict, offset, new_entries, pages>>
          /\ (last.op = "update" /\ last.entry = last'.entry) =>
                 log'[1].body = log[1].body]_vars

C14_Witness ==
    /\ last.op = "update" /\ prev.op = "update" /\ prev.entry = last.entry
    /\ prev.error = "none" /\ last.error = "HTTPError"
    /\ entries[last.entry].raw = Original(last.entry)
    /\ entries[last.entry].description # Original(last.entry).description

(***************************************************************************)
(* Claims about the construction of a session.                             *)
(***************************************************************************)
BootstrapOrder == <<"users.json", "contacts.json", "projects.json">>

BootFailed == "error" \in DOMAIN last /\ last.op = "MinuteDock"

StageIndex(stage) == CHOOSE i \in 1..3 : BootstrapOrder[i] = stage \o ".json"

\* C18: the constructor sends GETs to users.json, contacts.json and
\* projects.json, in this order and one each; it returns a session only after
\* the three; when one of them fails the constructor fails with that error,
\* the failing GET is the last request it sent, and nothing follows.
C18_BootstrapInOrder ==
    /\ [](/\ Len(log) <= 3
          /\ \A i \in DOMAIN log :
                 /\ log[i].method = "GET"
                 /\ log[i].path = BootstrapOrder[i]
                 /\ log[i].query = [api_key |-> API_KEY]
          /\ BootDone => (Len(log) = 3 /\ ~BootFailed)
          /\ BootFailed =>
                 /\ pc = "failed"
                 /\ last.error \in GetErrors
                 /\ Len(log) = StageIndex(last.arg))
    /\ [][pc # "failed"]_vars

C18_Witness ==
    /\ BootFailed /\ pc = "failed" /\ last.error = "ValueError"
    /\ Len(log) = 2 /\ log[2].path = "contacts.json"
    /\ Len(md.users) = 2

(***************************************************************************)
(* Claims about concurrent writers.                                        *)
(***************************************************************************)
\* the value update() sends for a writable key of the Entry e
FieldOf(e, k) ==
    IF k = "user_id" THEN e.user_id
    ELSE IF k = "contact_id" THEN e.contact_id
    ELSE IF k = "project_id" THEN e.project_id
    ELSE IF k = "description" THEN e.description
    ELSE strftime(e.date)

\* C20: every update() sends the five writable keys, and on a service that
\* applies each PUT the entry holds, after an update(), the values of the
\* Entry that was updated last for these keys, whatever an earlier update()
\* of another Entry of the same entry had stored.
C20_LastWriterWins ==
    (Updated /\ last.error = "none") =>
        /\ Writable \subseteq DOMAIN Payload
        /\ \A k \in Writable :
               /\ k \in DOMAIN remote[entries[last.entry].entry_id]
               /\ k # "logged_at" =>
                      remote[entries[last.entry].entry_id][k] = FieldOf(entries[last.entry], k)
               /\ k = "logged_at" =>
                      /\ WireInstant(remote[entries[last.entry].entry_id][k])
                             = WireInstant(FieldOf(entries[last.entry], k))
                      /\ WireOffset(remote[entries[last.entry].entry_id][k])
                             = WireOffset(FieldOf(entries[last.entry], k))

\* A changed the project and was updated, then the unchanged B was updated:
\* the service is back at the project B was built with
C20_Witness ==
    /\ Updated /\ last.error = "none" /\ prev.op = "update" /\ prev.error = "none"
    /\ prev.entry # last.entry
    /\ entries[prev.entry].entry_id = entries[last.entry].entry_id
    /\ entries[prev.entry].project_id # Original(prev.entry).project_id
    /\ entries[last.entry].project_id = Original(last.entry).project_id
    /\ remote[entries[last.entry].entry_id].project_id = Original(last.entry).project_id
    /\ remote[entries[last.entry].entry_id].project_id # entries[prev.entry].project_id

(***************************************************************************)
(* Claims about failing requests and about what a session keeps.           *)
(***************************************************************************)
SearchFailed == last.op = "entries_search" /\ last.error \in GetErrors

UpdateFailed == last.op = "update" /\ last.error \in PutErrors

\* C15: when a GET of a search fails, the search ends with that error and
\* returns nothing: the failing GET is the last request, every GET before it
\* was answered with a page and none was sent twice; a search that returns a
\* list had every GET answered.  When the PUT of update() fails, update()
\* ends with that error after this one request.
C15_FailuresPropagate ==
    /\ SearchFailed =>
           /\ pc = "idle"
           /\ entries = <<>>
           /\ Len(log) = Len(pages) + 1
           /\ \A i \in DOMAIN pages : pages[i] # <<>>
           /\ \A i, j \in DOMAIN log : i # j => log[i].query.offset # log[j].query.offset
    /\ SearchReturned => Len(log) = Len(pages)
    /\ UpdateFailed =>
           /\ pc = "idle"
           /\ Len(log) = 1 /\ log[1].method = "PUT"

C15_Witness ==
    /\ SearchFailed /\ last.error = "ValueError"
    /\ Len(pages) = 2 /\ Len(log) = 3
    /\ prev.op = "update" /\ prev.error = "URLError"

\* C16: no call made on a constructed session changes the three lists or
\* the six indexes, and no request of such a call goes to users.json,
\* contacts.json or projects.json.
C16_CatalogNeverRefreshed ==
    [][/\ md' = md
       /\ \A i \in DOMAIN log' : log'[i].path \notin Range(BootstrapOrder)]_vars

C16_Witness ==
    /\ calls >= 3
    /\ SearchReturned /\ Len(entries) = 2
    /\ prev.op = "update" /\ prev.error = "none"
    /\ md = Session([users |-> <<U1, U2>>, contacts |-> <<K1, K2>>, projects |-> <<P1, P2>>])

(***************************************************************************)
(* Claims about the identity of Entry objects.                             *)
(***************************************************************************)
\* C17: the Entry objects of two searches, or of two records of one search,
\* that stand for the same entry of the service are independent: a call of
\* change_contact, change_project or update() on one of them, or an
\* assignment to one of its attributes, leaves every other Entry, its raw
\* included, as it was.
C17_EntriesIndependent ==
    [][calls' = calls + 1 =>
          /\ DOMAIN entries' = DOMAIN entries
          /\ \A j \in DOMAIN entries : j # last'.entry => entries'[j] = entries[j]]_vars

C17_Witness ==
    /\ Len(entries) = 2
    /\ entries[1].entry_id = entries[2].entry_id
    /\ last.op = "update" /\ last.entry = 1 /\ last.error = "none"
    /\ entries[1].project_id # entries[2].project_id
    /\ entries[1].raw = entries[2].raw
    /\ entries[2] = Entry(E11)
    /\ remote[11].project_id = entries[1].project_id

(***************************************************************************)
(* Claims about a service that pages by offset.                            *)
(***************************************************************************)
\* the entries a search is to return: all the entries of the service, those
\* without a project when projects=[] was given
Matching ==
    LET NoProject(e) == e.project_id = None
    IN  IF EmptyProjects THEN SelectSeq(Dataset(remote), NoProject) ELSE Dataset(remote)

\* C19: against a service that answers the offset k with entries of its
\* fixed order from position k on, at least one and as many as it likes, and
\* with an empty page once k is past the last, every search that entered
\* its loop returns, and returns an Entry for every matching entry, once
\* each and in the order of the service.
C19_SlicedSearchComplete ==
    /\ [](SearchReturned => entries = [i \in DOMAIN Matching |-> Entry(Matching[i])])
    /\ (pc = "paging") ~> SearchReturned

C19_Witness ==
    /\ SearchReturned
    /\ Len(pages) = 3 /\ Len(pages[1]) = 2 /\ Len(pages[2]) = 1
    /\ log[2].query.offset = "2" /\ log[3].query.offset = "3"
    /\ Len(entries) = 3
    /\ entries[3].entry_id = 13

====
